---- MODULE Spec2Model ----
(***************************************************************************)
(* Model of release/lts/create_release_notes.py: the command line entry    *)
(* point that parses --version/--issue/--format, resolves the issue from   *)
(* a version-prefix table and calls lts_download.print_urls and            *)
(* lts_issue.print_notes.                                                  *)
(*                                                                         *)
(* Encoding.  A version is a sequence of one-character strings, so that    *)
(* str.startswith is computed on the characters.  Issue and format values  *)
(* are TLA+ strings (the program only tests them for emptiness/equality).  *)
(* Python's None is None == <<>> and a Python value x held in a slot that  *)
(* may also hold None is Some(x) == <<x>>.                                 *)
(***************************************************************************)
EXTENDS Integers, Sequences, FiniteSets

VARIABLES argv, args, version, issue, out, pc, raised, status, exit_code

vars == <<argv, args, version, issue, out, pc, raised, status, exit_code>>

None == <<>>
Some(x) == <<x>>

\* Longest run of characters appended to a base string to build a version.
MaxSuffixLen == 2

(***************************************************************************)
(* Pure helpers                                                            *)
(***************************************************************************)

\* str.startswith(prefix) on character sequences.
StartsWith_contains(s, p) ==
    \E i \in 1..(Len(s) + 1) :
        i + Len(p) - 1 <= Len(s) /\ SubSeq(s, i, i + Len(p) - 1) = p

StartsWith(s, p) ==
    Len(s) >= Len(p) /\ SubSeq(s, 1, Len(p)) = p

\* The if/elif chain of lines 42-51, in source order.
IssueTable_shifted ==
    << [prefix |-> <<"2", ".", "8", "3", ".">>, issue |-> "#88449"],
       [prefix |-> <<"2", ".", "9", "3", ".">>, issue |-> "#77348"],
       [prefix |-> <<"3", ".", "3", ".">>,      issue |-> "#100749"],
       [prefix |-> <<"3", ".", "6", ".">>,      issue |-> "#109399"],
       [prefix |-> <<"4", ".", "2", ".">>,      issue |-> "#124452"] >>

IssueTable_overlap ==
    << [prefix |-> <<"2", ".", "8", "3", ".">>, issue |-> "#77348"],
       [prefix |-> <<"2", ".", "9", "3", ".">>, issue |-> "#88449"],
       [prefix |-> <<"3", ".">>,                issue |-> "#100749"],
       [prefix |-> <<"3", ".", "6", ".">>,      issue |-> "#109399"],
       [prefix |-> <<"4", ".", "2", ".">>,      issue |-> "#124452"] >>

IssueTable ==
    << [prefix |-> <<"2", ".", "8", "3", ".">>, issue |-> "#77348"],
       [prefix |-> <<"2", ".", "9", "3", ".">>, issue |-> "#88449"],
       [prefix |-> <<"3", ".", "3", ".">>,      issue |-> "#100749"],
       [prefix |-> <<"3", ".", "6", ".">>,      issue |-> "#109399"],
       [prefix |-> <<"4", ".", "2", ".">>,      issue |-> "#124452"] >>

\* First-match-wins walk over a table of (prefix, issue) entries:
\* Some(issue) of the first entry whose prefix starts v, None when the
\* chain falls through to the else branch.
RECURSIVE LookupIn(_, _)
LookupIn(table, v) ==
    IF table = <<>> THEN None
    ELSE IF StartsWith(v, Head(table).prefix) THEN Some(Head(table).issue)
    ELSE LookupIn(Tail(table), v)

\* Python truth value of args.issue: None and "" are falsy.
NotIssue_onlyNone(x) == x = None

NotIssue_always(x) == TRUE

NotIssue(x) == x = None \/ x = Some("")

\* default= of the --format argument.
DefaultFormat_html == "html"

DefaultFormat == "text"

\* The test of line 56.
IsHtml_caseless(f) == f \in {"html", "HTML"}

IsHtml(f) == f = "html"

\* Output events, in the order they happen.
print_urls(v) == [call |-> "print_urls", version |-> v]

print_blank == [call |-> "print", text |-> ""]

print_notes_defaulted(v, f, i) ==
    [call |-> "print_notes", version |-> v, format |-> DefaultFormat, issue |-> i]

print_notes(v, f, i) ==
    [call |-> "print_notes", version |-> v, format |-> f, issue |-> i]

print_help == [call |-> "print_help"]

\* Process exit code for SystemExit(status): None is success, an int is
\* the code itself.
ExitCodeOf_noneIsOne(st) == IF st = None THEN 1 ELSE st[1]

ExitCodeOf(st) == IF st = None THEN 0 ELSE st[1]

(***************************************************************************)
(* Inputs                                                                  *)
(***************************************************************************)

Alphabet == {"0", "1", "3", "."}

RECURSIVE SeqsUpTo(_)
SeqsUpTo(n) ==
    IF n = 0 THEN {<<>>}
    ELSE LET shorter == SeqsUpTo(n - 1)
         IN  shorter \cup {Append(s, c) : s \in shorter, c \in Alphabet}

Suffixes == SeqsUpTo(MaxSuffixLen)

TablePrefixes == {IssueTable[k].prefix : k \in 1..Len(IssueTable)}

NearMisses ==
    { <<>>,
      <<"2", ".", "8">>,
      <<"2", ".", "9", "3">>,
      <<"3", ".">>,
      <<"4", ".", "2">>,
      <<"9", ".", "9", ".">>,
      <<"1", "2", ".", "8", "3", ".">> }

Versions == {b \o s : b \in TablePrefixes \cup NearMisses, s \in Suffixes}

IssueValues == {"", "#1", "0", "#109399"}

FormatValues == {"text", "steam", "markdown", "html", "HTML", "pdf", ""}

Opt(S) == {None} \cup {Some(x) : x \in S}

CommandLines ==
    [help : BOOLEAN, version : Opt(Versions), issue : Opt(IssueValues),
     format : Opt(FormatValues)]

(***************************************************************************)
(* State machine                                                           *)
(***************************************************************************)

Init ==
    /\ argv \in CommandLines
    /\ args = [version |-> None, issue |-> None, format |-> None]
    /\ version = None
    /\ issue = None
    /\ out = <<>>
    /\ pc = "parse_args"
    /\ raised = "none"
    /\ status = None
    /\ exit_code = None

\* parser.parse_args() meets -h/--help: prints the help and exits with 0.
ParseArgsHelp ==
    /\ pc = "parse_args"
    /\ argv.help
    /\ out' = Append(out, print_help)
    /\ raised' = "SystemExit"
    /\ status' = Some(0)
    /\ pc' = "unhandled"
    /\ UNCHANGED <<argv, args, version, issue, exit_code>>

\* parser.parse_args() without the required --version: usage error on
\* standard error and SystemExit(2).
ParseArgsError ==
    /\ pc = "parse_args"
    /\ ~argv.help
    /\ argv.version = None
    /\ raised' = "SystemExit"
    /\ status' = Some(2)
    /\ pc' = "unhandled"
    /\ UNCHANGED <<argv, args, version, issue, out, exit_code>>

\* parser.parse_args() succeeds: the Namespace with the format default.
ParseArgs ==
    /\ pc = "parse_args"
    /\ ~argv.help
    /\ argv.version /= None
    /\ args' = [version |-> argv.version,
                issue   |-> argv.issue,
                format  |-> IF argv.format = None
                            THEN Some(DefaultFormat) ELSE argv.format]
    /\ pc' = "determine_issue"
    /\ UNCHANGED <<argv, version, issue, out, raised, status, exit_code>>

\* Lines 39-53 with html output already produced when the lookup fails.
DetermineIssue_printsFirst ==
    /\ pc = "determine_issue"
    /\ version' = args.version
    /\ IF ~NotIssue(args.issue)
       THEN /\ issue' = args.issue
            /\ pc' = "format_test"
            /\ UNCHANGED <<raised, out>>
       ELSE LET found == LookupIn(IssueTable, args.version[1])
            IN  IF found /= None
                THEN /\ issue' = found
                     /\ pc' = "format_test"
                     /\ UNCHANGED <<raised, out>>
                ELSE /\ issue' = args.issue
                     /\ raised' = "ValueError"
                     /\ pc' = "unhandled"
                     /\ out' = IF IsHtml(args.format[1])
                               THEN out \o <<print_urls(args.version[1]), print_blank>>
                               ELSE out
    /\ UNCHANGED <<argv, args, status, exit_code>>

\* Lines 39-53: bind version and issue; resolve a falsy issue from the
\* table or raise ValueError.
DetermineIssue ==
    /\ pc = "determine_issue"
    /\ version' = args.version
    /\ IF ~NotIssue(args.issue)
       THEN /\ issue' = args.issue
            /\ pc' = "format_test"
            /\ UNCHANGED raised
       ELSE LET found == LookupIn(IssueTable, args.version[1])
            IN  IF found /= None
                THEN /\ issue' = found
                     /\ pc' = "format_test"
                     /\ UNCHANGED raised
                ELSE /\ issue' = args.issue
                     /\ raised' = "ValueError"
                     /\ pc' = "unhandled"
    /\ UNCHANGED <<argv, args, out, status, exit_code>>

\* Line 56.
FormatTest ==
    /\ pc = "format_test"
    /\ pc' = IF IsHtml(args.format[1]) THEN "print_urls" ELSE "print_notes"
    /\ UNCHANGED <<argv, args, version, issue, out, raised, status, exit_code>>

\* Line 57.
PrintUrls ==
    /\ pc = "print_urls"
    /\ out' = Append(out, print_urls(version[1]))
    /\ pc' = "print_blank"
    /\ UNCHANGED <<argv, args, version, issue, raised, status, exit_code>>

\* Line 58.
PrintBlank ==
    /\ pc = "print_blank"
    /\ out' = Append(out, print_blank)
    /\ pc' = "print_notes"
    /\ UNCHANGED <<argv, args, version, issue, raised, status, exit_code>>

\* Line 60; main then falls off its end.
PrintNotes ==
    /\ pc = "print_notes"
    /\ out' = Append(out, print_notes(version[1], args.format[1], issue[1]))
    /\ pc' = "return"
    /\ UNCHANGED <<argv, args, version, issue, raised, status, exit_code>>

\* Line 64: sys.exit(main()) with main's implicit None.
SysExit ==
    /\ pc = "return"
    /\ status' = None
    /\ exit_code' = Some(ExitCodeOf(None))
    /\ pc' = "done"
    /\ UNCHANGED <<argv, args, version, issue, out, raised>>

\* An exception leaves main and line 64 unhandled: SystemExit ends the
\* process with its status, any other exception with a traceback and 1.
Unhandled ==
    /\ pc = "unhandled"
    /\ exit_code' = IF raised = "SystemExit" THEN Some(ExitCodeOf(status)) ELSE Some(1)
    /\ pc' = "done"
    /\ UNCHANGED <<argv, args, version, issue, out, raised, status>>

Next ==
    \/ ParseArgsHelp
    \/ ParseArgsError
    \/ ParseArgs
    \/ DetermineIssue
    \/ FormatTest
    \/ PrintUrls
    \/ PrintBlank
    \/ PrintNotes
    \/ SysExit
    \/ Unhandled

Spec == Init /\ [][Next]_vars

(***************************************************************************)
(* Vocabulary of the properties                                            *)
(***************************************************************************)

\* p is an initial segment of s, character by character.
Begins(s, p) == Len(p) <= Len(s) /\ \A i \in 1..Len(p) : s[i] = p[i]

\* The prefix -> issue pairs as the documentation lists them.
DocumentedIssues ==
    { <<<<"2", ".", "8", "3", ".">>, "#77348">>,
      <<<<"2", ".", "9", "3", ".">>, "#88449">>,
      <<<<"3", ".", "3", ".">>,      "#100749">>,
      <<<<"3", ".", "6", ".">>,      "#109399">>,
      <<<<"4", ".", "2", ".">>,      "#124452">> }

Mapped(v) == \E e \in DocumentedIssues : Begins(v, e[1])

Parsed == args.version /= None

Finished == pc = "done"

MainReturned == pc = "done" /\ raised = "none"

CallsOf(name) == {i \in 1..Len(out) : out[i].call = name}

NotesCalls == CallsOf("print_notes")

UrlsCalls == CallsOf("print_urls")

BlankLines == CallsOf("print")

\* Positions of the calls that receive a version.
CollaboratorCalls == NotesCalls \cup UrlsCalls

V421 == <<"4", ".", "2", ".", "1">>

V360 == <<"3", ".", "6", ".", "0">>

(***************************************************************************)
(* Properties                                                              *)
(***************************************************************************)

\* C1: with no --issue and a version that begins with one of the five
\* documented prefixes, every print_notes call carries exactly the issue
\* documented for that prefix, whatever follows the prefix, and a finished
\* run has made that call.
C1_TableIssue ==
    \A e \in DocumentedIssues :
        (Parsed /\ ~argv.help /\ argv.issue = None /\ Begins(args.version[1], e[1])) =>
            /\ \A i \in NotesCalls : out[i].issue = e[2]
            /\ Finished => NotesCalls /= {}

C1_Witness ==
    /\ Finished
    /\ argv.issue = None
    /\ Parsed
    /\ Begins(args.version[1], <<"3", ".", "3", ".">>)
    /\ Len(args.version[1]) = 6
    /\ NotesCalls /= {}
    /\ out[Len(out)].issue = "#100749"

\* C2: with no --issue and a version that begins with none of the five
\* prefixes, the run raises the program's one error (ValueError in the
\* source) at issue resolution and never gets to the printing statements.
C2_UnmappedFails ==
    (Parsed /\ argv.issue = None /\ ~Mapped(args.version[1])) =>
        /\ pc \in {"determine_issue", "unhandled", "done"}
        /\ pc /= "determine_issue" => raised = "ValueError"
        /\ NotesCalls = {}

C2_Witness ==
    /\ Finished
    /\ Parsed
    /\ argv.issue = None
    /\ args.version[1] = <<"1", "2", ".", "8", "3", ".", "0">>
    /\ raised = "ValueError"

\* C3 as stated: whatever string is supplied for --issue, print_notes gets
\* exactly that string and the run never fails with the unmapped-version
\* error.
C3_Original ==
    (Parsed /\ argv.issue /= None) =>
        /\ raised /= "ValueError"
        /\ \A i \in NotesCalls : out[i].issue = argv.issue[1]

\* C3 amended: whatever NON-EMPTY string is supplied for --issue, and
\* whatever the version, print_notes gets exactly that string, the run
\* never fails with the unmapped-version error and a finished run has
\* called print_notes.
C3_ExplicitIssue ==
    (Parsed /\ argv.issue /= None /\ argv.issue /= Some("")) =>
        /\ raised /= "ValueError"
        /\ \A i \in NotesCalls : out[i].issue = argv.issue[1]
        /\ Finished => NotesCalls /= {}

C3_Witness ==
    /\ Finished
    /\ argv.issue = Some("#1")
    /\ argv.version = Some(V360)
    /\ NotesCalls /= {}
    /\ out[Len(out)].issue = "#1"

\* C4: a run of main that returns with format exactly "html" has output
\* print_urls(version), one blank line, print_notes, in that order and
\* nothing else; with any other format no print_urls call and no blank line
\* ever appears and the output of a returned run is the print_notes call
\* alone.
C4_OutputOrder ==
    /\ (Parsed /\ args.format /= Some("html")) =>
           /\ UrlsCalls = {}
           /\ BlankLines = {}
           /\ MainReturned => (Len(out) = 1 /\ out[1].call = "print_notes")
    /\ (MainReturned /\ args.format = Some("html")) =>
           /\ Len(out) = 3
           /\ out[1] = [call |-> "print_urls", version |-> argv.version[1]]
           /\ out[2] = [call |-> "print", text |-> ""]
           /\ out[3].call = "print_notes"

C4_Witness ==
    /\ MainReturned
    /\ argv.format = Some("html")
    /\ Len(out) = 3
    /\ out[1].call = "print_urls"
    /\ out[3].call = "print_notes"

\* C5: print_notes is never followed by anything and is called at most
\* once; a run of main that returns has called it exactly once, last, with
\* the version and format of the command line ("text" when --format is
\* omitted) unchanged and with the resolved issue, whether or not the
\* format is one of text, steam, markdown, html.
C5_NotesAlways ==
    /\ NotesCalls \subseteq {Len(out)}
    /\ MainReturned =>
           /\ NotesCalls = {Len(out)}
           /\ out[Len(out)] =
                  [call    |-> "print_notes",
                   version |-> argv.version[1],
                   format  |-> IF argv.format = None THEN "text" ELSE argv.format[1],
                   issue   |-> issue[1]]

C5_Witness ==
    /\ MainReturned
    /\ argv.format = Some("pdf")
    /\ NotesCalls = {1}
    /\ out[1].format = "pdf"

\* C6: a finished run that resolved the issue and printed the notes has
\* exit code 0; a finished run that lacked --version, or had no usable
\* issue and an unmapped version, has a nonzero exit code.
C6_ExitCodes ==
    Finished =>
        /\ exit_code /= None
        /\ NotesCalls /= {} => exit_code = Some(0)
        /\ (~argv.help /\ argv.version = None) => exit_code[1] /= 0
        /\ (~argv.help /\ argv.version /= None /\ argv.issue \in {None, Some("")}
              /\ ~Mapped(argv.version[1])) => exit_code[1] /= 0

C6_Witness ==
    /\ Finished
    /\ NotesCalls /= {}
    /\ exit_code = Some(0)

\* C7: when --format is omitted, print_notes is called with format "text"
\* and print_urls is never called; a run that returns has called
\* print_notes.
C7_DefaultFormat ==
    (argv.format = None) =>
        /\ \A i \in NotesCalls : out[i].format = "text"
        /\ UrlsCalls = {}
        /\ MainReturned => NotesCalls /= {}

C7_Witness ==
    /\ Finished
    /\ argv = [help |-> FALSE, version |-> Some(V421), issue |-> None, format |-> None]
    /\ out = << [call |-> "print_notes", version |-> V421, format |-> "text",
                 issue |-> "#124452"] >>

\* C8 as stated: every print_urls or print_notes call receives a non-empty
\* version.
C8_Original ==
    \A i \in CollaboratorCalls : out[i].version /= <<>>

\* C8 amended: every print_urls or print_notes call receives the --version
\* string as given; it is non-empty whenever the issue was absent or empty
\* (so derived from the table); with a non-empty --issue it may be empty.
C8_VersionAsGiven ==
    \A i \in CollaboratorCalls :
        /\ out[i].version = argv.version[1]
        /\ argv.issue \in {None, Some("")} => out[i].version /= <<>>

C8_Witness ==
    /\ argv.issue = Some("")
    /\ UrlsCalls /= {}
    /\ NotesCalls /= {}
    /\ out[1].version = V360

\* C9: a version begins with at most one prefix of the table, and the
\* outcome of issue resolution (the issue, or the failure) is the one that
\* first-match-wins gives under every ordering of the table's entries.
RECURSIVE Orderings(_)
Orderings(S) ==
    IF S = {} THEN {<<>>}
    ELSE UNION {{<<k>> \o f : f \in Orderings(S \ {k})} : k \in S}

TableOrders == Orderings(1..Len(IssueTable))

Reordered(f) == [k \in 1..Len(IssueTable) |-> IssueTable[f[k]]]

C9_OrderIrrelevant ==
    Parsed =>
        LET v == args.version[1] IN
        /\ Cardinality({k \in 1..Len(IssueTable) : Begins(v, IssueTable[k].prefix)}) <= 1
        /\ \A f \in TableOrders :
               LET r == LookupIn(Reordered(f), v) IN
               /\ r = LookupIn(IssueTable, v)
               /\ (argv.issue \in {None, Some("")} /\ pc /= "determine_issue") =>
                      IF r = None THEN raised = "ValueError" ELSE issue = r

C9_Witness ==
    /\ Finished
    /\ argv.issue = None
    /\ argv.version = Some(V360)
    /\ issue = Some("#109399")
    /\ LookupIn(Reordered(<<5, 4, 3, 2, 1>>), V360)
           = Some("#109399")

\* C10: once issue resolution has failed, standard output is empty: no
\* print_urls call, no blank line, no print_notes call, also with format
\* "html".
C10_NoPartialOutput ==
    raised = "ValueError" => out = <<>>

C10_Witness ==
    /\ Finished
    /\ raised = "ValueError"
    /\ argv.format = Some("html")
    /\ out = <<>>

====
